---- MODULE Spec2Model ----
(***************************************************************************)
(* A model of pynapple/core/utils.py: the interval-set normalizer          *)
(* _jitfix_iset, the time-equality comparator _check_time_equals and the   *)
(* two numpy wrappers _split_tsd and _concatenate_tsd.                     *)
(*                                                                         *)
(* Times are integers.  In the normalizer one unit is one microsecond, so  *)
(* the decrement 1.0e-6 of line 309 is Eps units.  In the wrappers one     *)
(* unit is the configured tolerance 1 / 10**time_index_precision, so the   *)
(* atol of line 141 is Atol units.                                         *)
(***************************************************************************)
EXTENDS Integers, Sequences, FiniteSets, TLC

VARIABLES pc, start, end, fixed, refixed,
          split_call, split_ret, rejoined,
          concat_call, concat_ret

vars == <<pc, start, end, fixed, refixed,
          split_call, split_ret, rejoined, concat_call, concat_ret>>

iset_vars == <<start, end, fixed, refixed>>
split_vars == <<split_call, split_ret, rejoined>>
concat_vars == <<concat_call, concat_ret>>

\* ------------------------------------------------------------------ bounds
\* The normalizer's inputs: at most MaxLen intervals over the times 0..MaxTime.
MaxLen == 3
MaxTime == 3
\* The split container: at most MaxSplitRows rows, MaxCols columns and layers;
\* at most MaxSections sections, or at most MaxCuts cut points.
MaxSplitRows == 4
MaxCols == 2
MaxSections == 3
MaxCuts == 2
\* A concatenation: at most MaxOperands operands of at most MaxRows rows and,
\* when two-dimensional, NumCols columns; indexes start at 0..MaxStart.
MaxOperands == 2
MaxRows == 2
NumCols == 2
MaxStart == 2

\* ------------------------------------------------------- program constants
Eps == 1

\* ----------------------------------------------------------------- helpers
Max(a, b) == IF a >= b THEN a ELSE b

None == [kind |-> "None"]

\* ------------------------------------------------------------ _jitfix_iset
\* to_warn = np.zeros(4, dtype=np.bool_)
NoWarn == [k \in 0..3 |-> FALSE]

\* The loop of lines 277-284: the first position >= i whose end differs
\* from its start (m + 1 when there is none; positions are 1-based here).
RECURSIVE SkipEqual(_, _, _)
SkipEqual(s, e, i) ==
    IF i <= Len(s) /\ e[i] = s[i] THEN SkipEqual(s, e, i + 1) ELSE i

\* The loop of lines 286-293: the first position >= i whose end does not
\* precede its start.
RECURSIVE SkipInverted(_, _, _)
SkipInverted(s, e, i) ==
    IF i <= Len(s) /\ e[i] < s[i] THEN SkipInverted(s, e, i + 1) ELSE i

\* The loop of lines 298-304: the cursor advances while the next start
\* precedes end[i]; newend becomes max(end[i - 1], end[i]) of the new i.
RECURSIVE MergeRun(_, _, _, _, _)
MergeRun(s, e, i, newend, merged) ==
    IF i < Len(s) /\ s[i + 1] < e[i]
    THEN MergeRun(s, e, i + 1, Max(e[i], e[i + 1]), TRUE)
    ELSE [i |-> i, newend |-> newend, merged |-> merged]

\* One pass of the outer loop of lines 273-315, from cursor i.
RECURSIVE Scan(_, _, _, _, _)
Scan(s, e, i, data, to_warn) ==
    IF i > Len(s) THEN [data |-> data, to_warn |-> to_warn]
    ELSE
      LET i1 == SkipEqual(s, e, i)
          w1 == [to_warn EXCEPT ![3] = @ \/ (i1 > i)]
          i2 == SkipInverted(s, e, i1)
          w2 == [w1 EXCEPT ![1] = @ \/ (i2 > i1)]
      IN  IF i2 > Len(s) THEN [data |-> data, to_warn |-> w2]
          ELSE
            LET run == MergeRun(s, e, i2, e[i2], FALSE)
                w3 == [w2 EXCEPT ![2] = @ \/ run.merged]
                touch == run.i < Len(s) /\ run.newend = s[run.i + 1]
                w4 == [w3 EXCEPT ![0] = @ \/ touch]
                newend == IF touch THEN run.newend - Eps ELSE run.newend
            IN  Scan(s, e, run.i + 1, Append(data, <<s[i2], newend>>), w4)

_jitfix_iset(s, e) == Scan(s, e, 1, <<>>, NoWarn)


\* ------------------------------------------------------ numpy: split family
\* A numpy array is its shape and its nested rows; every cell is a distinct
\* number, so that a cell dropped, moved or repeated shows in the result.
Cell(tag, r, c, z) == tag * 1000 + r * 100 + c * 10 + z

MkArray(tag, shape) ==
    [kind |-> "array",
     shape |-> shape,
     a |-> CASE Len(shape) = 1 -> [r \in 1..shape[1] |-> Cell(tag, r, 0, 0)]
             [] Len(shape) = 2 ->
                  [r \in 1..shape[1] |-> [c \in 1..shape[2] |-> Cell(tag, r, c, 0)]]
             [] Len(shape) = 3 ->
                  [r \in 1..shape[1] |->
                     [c \in 1..shape[2] |->
                        [z \in 1..shape[3] |-> Cell(tag, r, c, z)]]]]

Min(a, b) == IF a <= b THEN a ELSE b

Ok(v) == [kind |-> "ok", value |-> v]
Raise(e) == [kind |-> "raise", error |-> e]

\* q[st:en] of Python, for st, en >= 0.
PySlice(q, st, en) ==
    LET lo == Min(st, Len(q))
        hi == Min(en, Len(q))
    IN  IF lo >= hi THEN <<>> ELSE SubSeq(q, lo + 1, hi)

\* swapaxes(swapaxes(ary, axis, 0)[st:en], axis, 0) of array_split.
TakeAxis(ary, axis, st, en) ==
    LET n == ary.shape[axis + 1]
        lo == Min(st, n)
        hi == Min(en, n)
    IN  [kind |-> "array",
         shape |-> [ary.shape EXCEPT ![axis + 1] = IF lo >= hi THEN 0 ELSE hi - lo],
         a |-> CASE axis = 0 -> PySlice(ary.a, st, en)
                 [] axis = 1 -> [r \in DOMAIN ary.a |-> PySlice(ary.a[r], st, en)]
                 [] axis = 2 ->
                      [r \in DOMAIN ary.a |->
                         [c \in DOMAIN ary.a[r] |-> PySlice(ary.a[r][c], st, en)]]]

\* A split specification: a number of sections or explicit cut points.
Sections(n) == [kind |-> "sections", n |-> n]
Indices(at) == [kind |-> "indices", at |-> at]

\* section_sizes.cumsum() of array_split: the first `extras` sections hold
\* one row more.
DivPoints(Ntotal, ios) ==
    IF ios.kind = "indices" THEN <<0>> \o ios.at \o <<Ntotal>>
    ELSE LET Neach == Ntotal \div ios.n
             extras == Ntotal % ios.n
         IN  [k \in 1..(ios.n + 1) |->
                IF k - 1 <= extras THEN (k - 1) * (Neach + 1)
                ELSE extras * (Neach + 1) + (k - 1 - extras) * Neach]

np_array_split(ary, ios, axis) ==
    IF axis >= Len(ary.shape) THEN Raise("IndexError")
    ELSE IF ios.kind = "sections" /\ ios.n <= 0 THEN Raise("ValueError")
    ELSE LET div == DivPoints(ary.shape[axis + 1], ios)
         IN  Ok([k \in 1..(Len(div) - 1) |-> TakeAxis(ary, axis, div[k], div[k + 1])])

np_split(ary, ios, axis) ==
    IF ios.kind = "sections" /\ axis >= Len(ary.shape) THEN Raise("IndexError")
    ELSE IF ios.kind = "sections" /\ ary.shape[axis + 1] % ios.n # 0
    THEN Raise("ValueError")
    ELSE np_array_split(ary, ios, axis)

np_vsplit(ary, ios) ==
    IF Len(ary.shape) < 2 THEN Raise("ValueError") ELSE np_split(ary, ios, 0)

np_hsplit(ary, ios) ==
    IF Len(ary.shape) > 1 THEN np_split(ary, ios, 1) ELSE np_split(ary, ios, 0)

np_dsplit(ary, ios) ==
    IF Len(ary.shape) < 3 THEN Raise("ValueError") ELSE np_split(ary, ios, 2)

\* func._implementation(values, indices_or_sections)
Implementation2(func, ary, ios) ==
    CASE func = "split" -> np_split(ary, ios, 0)
      [] func = "array_split" -> np_array_split(ary, ios, 0)
      [] func = "vsplit" -> np_vsplit(ary, ios)
      [] func = "hsplit" -> np_hsplit(ary, ios)
      [] func = "dsplit" -> np_dsplit(ary, ios)

\* func._implementation(values, indices_or_sections, axis): vsplit takes no
\* third argument.
Implementation3(func, ary, ios, axis) ==
    CASE func = "split" -> np_split(ary, ios, axis)
      [] func = "array_split" -> np_array_split(ary, ios, axis)
      [] OTHER -> Raise("TypeError")

\* ------------------------------------------------------------- containers
\* An IntervalSet is its (m, 2) array of starts and ends.
IntervalSet(rows) == [kind |-> "IntervalSet", values |-> rows]

\* The support a container gets when the constructor is given none: the span
\* of its index.
DefaultSupport(t) ==
    IF t = <<>> THEN IntervalSet(<<>>)
    ELSE IntervalSet(_jitfix_iset(<<t[1]>>, <<t[Len(t)]>>).data)

\* tsd.__class__(t=..., d=..., time_support=..., columns=...): the container
\* is the arguments it is built from.
Container(cls, t, d, time_support, columns) ==
    [kind |-> "container",
     nap_class |-> cls,
     index |-> t,
     values |-> d,
     time_support |-> IF time_support.kind = "None" THEN DefaultSupport(t) ELSE time_support,
     columns |-> columns]

\* hasattr(tsd, "columns")
HasColumns(tsd) == tsd.nap_class = "TsdFrame"

\* -------------------------------------------------------------- _split_tsd
IndexArray(t) == [kind |-> "array", shape |-> <<Len(t)>>, a |-> t]

_split_tsd(func, tsd, indices_or_sections, axis) ==
    IF func \in {"split", "array_split", "vsplit"} /\ axis = 0
    THEN LET out == Implementation2(func, tsd.values, indices_or_sections)
             index_list == np_split(IndexArray(tsd.index), indices_or_sections, 0)
             columns == IF HasColumns(tsd) THEN tsd.columns ELSE None
         IN  IF out.kind = "raise" THEN out
             ELSE IF index_list.kind = "raise" THEN index_list
             ELSE Ok([k \in 1..Min(Len(index_list.value), Len(out.value)) |->
                        Container(tsd.nap_class, index_list.value[k].a,
                                  out.value[k], None, columns)])
    ELSE IF func \in {"dsplit", "hsplit"}
    THEN LET out == Implementation2(func, tsd.values, indices_or_sections)
             columns == IF HasColumns(tsd) THEN tsd.columns ELSE None
         IN  IF out.kind = "raise" THEN out
             ELSE Ok([k \in 1..Len(out.value) |->
                        Container(tsd.nap_class, tsd.index, out.value[k], None, columns)])
    ELSE Implementation3(func, tsd.values, indices_or_sections, axis)

\* -------------------------------------------------- numpy: concatenation
RECURSIVE Flatten(_)
Flatten(qs) == IF qs = <<>> THEN <<>> ELSE Head(qs) \o Flatten(Tail(qs))

RECURSIVE Sum(_)
Sum(q) == IF q = <<>> THEN 0 ELSE Head(q) + Sum(Tail(q))

\* The shape of ary with the entry of `axis` removed.
OtherDims(ary, axis) ==
    [k \in 1..(Len(ary.shape) - 1) |->
       IF k <= axis THEN ary.shape[k] ELSE ary.shape[k + 1]]

np_concatenate(arrays, axis) ==
    IF arrays = <<>> THEN Raise("ValueError")
    ELSE IF \E k \in DOMAIN arrays : Len(arrays[k].shape) # Len(arrays[1].shape)
    THEN Raise("ValueError")
    ELSE IF axis >= Len(arrays[1].shape) THEN Raise("AxisError")
    ELSE IF \E k \in DOMAIN arrays : OtherDims(arrays[k], axis) # OtherDims(arrays[1], axis)
    THEN Raise("ValueError")
    ELSE LET n == Sum([k \in DOMAIN arrays |-> arrays[k].shape[axis + 1]])
         IN  Ok([kind |-> "array",
                 shape |-> [arrays[1].shape EXCEPT ![axis + 1] = n],
                 a |-> IF axis = 0
                       THEN Flatten([k \in DOMAIN arrays |-> arrays[k].a])
                       ELSE [r \in 1..arrays[1].shape[1] |->
                               Flatten([k \in DOMAIN arrays |-> arrays[k].a[r]])]])

atleast_2d(ary) ==
    IF Len(ary.shape) = 1
    THEN [kind |-> "array", shape |-> <<1, ary.shape[1]>>, a |-> <<ary.a>>]
    ELSE ary

np_vstack(arrays) == np_concatenate([k \in DOMAIN arrays |-> atleast_2d(arrays[k])], 0)

np_hstack(arrays) ==
    IF arrays # <<>> /\ Len(arrays[1].shape) = 1
    THEN np_concatenate(arrays, 0)
    ELSE np_concatenate(arrays, 1)

\* The second positional argument of a call, and the axis keyword.
Absent == [kind |-> "absent"]
IntArg(v) == [kind |-> "int", v |-> v]

\* Lines 176-181: for np.concatenate without an axis keyword and with a
\* second positional argument, that argument is the axis when it is an int
\* and the axis is 0 otherwise.
KwAxis(func, arg1, kwaxis) ==
    IF func = "concatenate" /\ kwaxis.kind = "absent" /\ arg1.kind # "absent"
    THEN IF arg1.kind = "int" THEN arg1 ELSE IntArg(0)
    ELSE kwaxis

\* func._implementation(arrays, **kwargs)
ImplementationConcat(func, arrays, kwaxis) ==
    CASE func = "concatenate" ->
           np_concatenate(arrays, IF kwaxis.kind = "int" THEN kwaxis.v ELSE 0)
      [] func = "vstack" ->
           IF kwaxis.kind = "absent" THEN np_vstack(arrays) ELSE Raise("TypeError")
      [] func = "hstack" ->
           IF kwaxis.kind = "absent" THEN np_hstack(arrays) ELSE Raise("TypeError")

\* ------------------------------------------------------ _check_time_equals
Atol == 1

Abs(x) == IF x >= 0 THEN x ELSE 0 - x

\* np.allclose(a, b, rtol=0, atol=Atol) of two arrays given as sequences of
\* rows of one width: the row counts broadcast when they are equal or one
\* of them is 1, and the call raises otherwise.
AllClose(a, b) ==
    IF Len(a) # Len(b) /\ Len(a) # 1 /\ Len(b) # 1 THEN Raise("ValueError")
    ELSE LET n == IF Len(a) = 1 THEN Len(b) ELSE IF Len(b) = 1 THEN Len(a) ELSE Len(a)
             A(r) == IF Len(a) = 1 THEN a[1] ELSE a[r]
             B(r) == IF Len(b) = 1 THEN b[1] ELSE b[r]
         IN  Ok(\A r \in 1..n : \A c \in DOMAIN A(r) : Abs(A(r)[c] - B(r)[c]) <= Atol)

\* combinations(time_arrays, 2), in the order itertools yields them.
RECURSIVE Combinations(_, _, _)
Combinations(n, i, j) ==
    IF i >= n THEN <<>>
    ELSE IF j > n THEN Combinations(n, i + 1, i + 2)
    ELSE << <<i, j>> >> \o Combinations(n, i, j + 1)

\* all(map(...)): the pairs are compared in order; the first False ends the
\* scan with False, and a comparison that raises ends it with the error.
RECURSIVE AllPairs(_, _)
AllPairs(time_arrays, pairs) ==
    IF pairs = <<>> THEN Ok(TRUE)
    ELSE LET c == AllClose(time_arrays[Head(pairs)[1]], time_arrays[Head(pairs)[2]])
         IN  IF c.kind = "raise" THEN c
             ELSE IF ~c.value THEN Ok(FALSE)
             ELSE AllPairs(time_arrays, Tail(pairs))

_check_time_equals(time_arrays) ==
    AllPairs(time_arrays, Combinations(Len(time_arrays), 1, 2))

\* A one-dimensional time index as rows of width 1.
AsRows(t) == [k \in DOMAIN t |-> <<t[k]>>]

\* ------------------------------------------------------ IntervalSet.union
\* The unit cells [k, k + 1) an interval set covers.
Cells(iset) ==
    UNION {iset.values[k][1]..(iset.values[k][2] - 1) : k \in DOMAIN iset.values}

RECURSIVE SortedSeq(_)
SortedSeq(S) ==
    IF S = {} THEN <<>>
    ELSE LET lo == CHOOSE x \in S : \A y \in S : x <= y
         IN  <<lo>> \o SortedSeq(S \ {lo})

\* The interval set of the maximal runs of a set of cells.
FromCells(S) ==
    LET starts == SortedSeq({k \in S : k - 1 \notin S})
        ends == SortedSeq({k + 1 : k \in {j \in S : j + 1 \notin S}})
    IN  IntervalSet([k \in DOMAIN starts |-> <<starts[k], ends[k]>>])

\* time_support.union(support): the set union of the two interval sets.
Union(a, b) == FromCells(Cells(a) \cup Cells(b))

\* -------------------------------------------------------- _concatenate_tsd
\* Lines 184-189: the operand has values, index, time_support and nap_class.
IsNap(arg) == arg.kind = "container"

\* Lines 212-214.
RECURSIVE JoinSupports(_)
JoinSupports(time_supports) ==
    IF Len(time_supports) = 1 THEN time_supports[1]
    ELSE Union(JoinSupports(SubSeq(time_supports, 1, Len(time_supports) - 1)),
               time_supports[Len(time_supports)])

Returned(ret, warnings) == [ret |-> ret, warnings |-> warnings]

MsgBoth == "Time indexes and time supports are not all equals up to pynapple precision. Returning numpy array!"
MsgIndexes == "Time indexes are not all equals up to pynapple precision. Returning numpy array!"
MsgSupports == "Time supports are not all equals up to pynapple precision. Returning numpy array!"

\* FirstAxisGrew without the check of line 207: the joined index is taken
\* as it comes.
FirstAxisGrewUnchecked(output, naps, arrays) ==
    IF Len(naps) = Len(arrays)
    THEN LET with_columns == SelectSeq(naps, HasColumns)
         IN  Returned(
               Container(naps[Len(naps)].nap_class,
                         Flatten([k \in DOMAIN naps |-> naps[k].index]), output,
                         JoinSupports([k \in DOMAIN naps |-> naps[k].time_support]),
                         IF with_columns # <<>> THEN with_columns[1].columns ELSE None),
               <<>>)
    ELSE Returned(output, <<>>)

\* FirstAxisGrew with the test of line 204 weakened to "some operand carries
\* time metadata".
FirstAxisGrewPartial(output, naps, arrays) ==
    IF Len(naps) >= 1
    THEN LET new_index == Flatten([k \in DOMAIN naps |-> naps[k].index])
         IN  IF \E k \in 1..(Len(new_index) - 1) : new_index[k + 1] - new_index[k] <= 0
             THEN Returned(Raise("RuntimeError"), <<>>)
             ELSE Returned(
                    Container(naps[Len(naps)].nap_class, new_index, output,
                              JoinSupports([k \in DOMAIN naps |-> naps[k].time_support]),
                              None),
                    <<>>)
    ELSE Returned(output, <<>>)

\* Lines 203-222: the output grew along the first axis.
FirstAxisGrew(output, naps, arrays) ==
    IF Len(naps) = Len(arrays)
    THEN LET new_index == Flatten([k \in DOMAIN naps |-> naps[k].index])
             with_columns == SelectSeq(naps, HasColumns)
         IN  IF \E k \in 1..(Len(new_index) - 1) : new_index[k + 1] - new_index[k] <= 0
             THEN Returned(Raise("RuntimeError"), <<>>)
             ELSE Returned(
                    Container(naps[Len(naps)].nap_class, new_index, output,
                              JoinSupports([k \in DOMAIN naps |-> naps[k].time_support]),
                              IF with_columns # <<>> THEN with_columns[1].columns ELSE None),
                    <<>>)
    ELSE Returned(output, <<>>)

\* Lines 224-244: the output did not grow along the first axis.
OtherAxisGrew(output, naps) ==
    IF Len(naps) = 1
    THEN Returned(Container(naps[1].nap_class, naps[1].index, output,
                            naps[1].time_support, None), <<>>)
    ELSE LET time_equal == _check_time_equals([k \in DOMAIN naps |-> AsRows(naps[k].index)])
             support_equal ==
                 _check_time_equals([k \in DOMAIN naps |-> naps[k].time_support.values])
         IN  IF time_equal.kind = "raise" THEN Returned(time_equal, <<>>)
             ELSE IF support_equal.kind = "raise" THEN Returned(support_equal, <<>>)
             ELSE IF time_equal.value /\ support_equal.value
             THEN IF naps = <<>> THEN Returned(Raise("IndexError"), <<>>)
                  ELSE Returned(Container(naps[Len(naps)].nap_class, naps[1].index, output,
                                          naps[1].time_support, None), <<>>)
             ELSE IF ~time_equal.value /\ ~support_equal.value
             THEN Returned(output, <<MsgBoth>>)
             ELSE IF ~time_equal.value /\ support_equal.value
             THEN Returned(output, <<MsgIndexes>>)
             ELSE Returned(output, <<MsgSupports>>)

_concatenate_tsd(func, operands, arg1, kwaxis) ==
    LET naps == SelectSeq(operands, IsNap)
        arrays == [k \in DOMAIN operands |->
                     IF IsNap(operands[k]) THEN operands[k].values ELSE operands[k]]
        output == ImplementationConcat(func, arrays, KwAxis(func, arg1, kwaxis))
    IN  IF output.kind = "raise" THEN Returned(output, <<>>)
        ELSE IF output.value.shape[1] > arrays[1].shape[1]
        THEN FirstAxisGrew(output.value, naps, arrays)
        ELSE OtherAxisGrew(output.value, naps)

\* ------------------------------------------------- the normalizer's calls
Times == 0..MaxTime

IsAscending(s) == \A k \in 1..(Len(s) - 1) : s[k] <= s[k + 1]

TimeSeqs == UNION {[1..n -> Times] : n \in 0..MaxLen}

InitIset ==
    /\ pc = "input"
    /\ start \in {s \in TimeSeqs : IsAscending(s)}
    /\ end \in {e \in TimeSeqs : Len(e) = Len(start)}
    /\ fixed = None
    /\ refixed = None
    /\ split_call = None /\ split_ret = None /\ rejoined = None
    /\ concat_call = None /\ concat_ret = None

\* A caller builds an interval set from raw boundaries.
Normalize ==
    /\ pc = "input"
    /\ fixed' = _jitfix_iset(start, end)
    /\ pc' = "fixed"
    /\ UNCHANGED <<start, end, refixed, split_vars, concat_vars>>

Column(data, c) == [k \in 1..Len(data) |-> data[k][c]]

\* The caller normalizes the start and end columns of the first result again.
Renormalize ==
    /\ pc = "fixed"
    /\ refixed' = _jitfix_iset(Column(fixed.data, 1), Column(fixed.data, 2))
    /\ pc' = "refixed"
    /\ UNCHANGED <<start, end, fixed, split_vars, concat_vars>>

NextIset == Normalize \/ Renormalize

SpecIset == InitIset /\ [][NextIset]_vars

\* ------------------------------------------------------ the split's calls
Columns(labels) == [kind |-> "columns", labels |-> labels]

ClassOf(ndim) ==
    CASE ndim = 1 -> "Tsd" [] ndim = 2 -> "TsdFrame" [] ndim = 3 -> "TsdTensor"

\* A well-formed container: one index entry per row, one label per column.
MkTsd(tag, shape, t, time_support) ==
    Container(ClassOf(Len(shape)), t, MkArray(tag, shape), time_support,
              IF Len(shape) = 2 THEN Columns([c \in 1..shape[2] |-> 100 + c]) ELSE None)

SplitShapes ==
    {<<n>> : n \in 0..MaxSplitRows}
    \cup {<<n, c>> : n \in 0..MaxSplitRows, c \in 1..MaxCols}
    \cup {<<n, c, z>> : n \in 0..MaxSplitRows, c \in 1..MaxCols, z \in 1..MaxCols}

\* The support given to the split container: none (the container then spans
\* its index) or a wider single interval.
SplitSupports == {None, IntervalSet(<< <<0, MaxSplitRows + 1>> >>)}

\* The container of a shape: its index is 1, 2, ..., n.
SplitTsd(shape, ts) == MkTsd(0, shape, [k \in 1..shape[1] |-> k], ts)

SplitSpecs ==
    {Sections(n) : n \in 1..MaxSections}
    \cup {Indices(at) : at \in UNION {[1..n -> 0..MaxSplitRows] : n \in 1..MaxCuts}}

SplitFuncs == {"split", "array_split", "vsplit", "hsplit", "dsplit"}

InitSplit ==
    /\ pc = "input"
    /\ \E func \in SplitFuncs, shape \in SplitShapes, ts \in SplitSupports,
          ios \in SplitSpecs, axis \in 0..1 :
         split_call = [func |-> func, tsd |-> SplitTsd(shape, ts),
                       indices_or_sections |-> ios, axis |-> axis]
    /\ split_ret = None /\ rejoined = None
    /\ start = <<>> /\ end = <<>> /\ fixed = None /\ refixed = None
    /\ concat_call = None /\ concat_ret = None

\* np.split(tsd, ...), np.hsplit(tsd, ...) and the like reach _split_tsd.
Split ==
    /\ pc = "input"
    /\ split_ret' = _split_tsd(split_call.func, split_call.tsd,
                               split_call.indices_or_sections, split_call.axis)
    /\ pc' = "split"
    /\ UNCHANGED <<split_call, rejoined, iset_vars, concat_vars>>

\* The caller joins the pieces again along the first axis.
Rejoin ==
    /\ pc = "split"
    /\ split_ret.kind = "ok"
    /\ \E kwaxis \in {Absent, IntArg(0)} :
         rejoined' = _concatenate_tsd("concatenate", split_ret.value, Absent, kwaxis)
    /\ pc' = "rejoined"
    /\ UNCHANGED <<split_call, split_ret, iset_vars, concat_vars>>

NextSplit == Split \/ Rejoin

SpecSplit == InitSplit /\ [][NextSplit]_vars

\* ------------------------------------------------ the concatenation's calls
SupA == IntervalSet(<< <<0, 20>> >>)
SupB == IntervalSet(<< <<0, 9>>, <<11, 20>> >>)
SupC == IntervalSet(<< <<0, 5>>, <<7, 12>>, <<14, 20>> >>)

\* Where an operand's index starts, and its support.
Timings ==
    {<<t0, SupA>> : t0 \in 0..MaxStart} \cup {<<0, SupB>>, <<0, SupC>>}

ConcatShapes == {<<n>> : n \in 1..MaxRows} \cup {<<n, NumCols>> : n \in 1..MaxRows}

OperandChoices ==
    [nap : {TRUE}, shape : ConcatShapes, timing : Timings]
    \cup [nap : {FALSE}, shape : ConcatShapes, timing : {<<0, SupA>>}]

\* The k-th operand: a container with the index t0, t0 + 1, ..., or an array.
Operand(k, ch) ==
    IF ch.nap
    THEN MkTsd(k, ch.shape, [r \in 1..ch.shape[1] |-> ch.timing[1] + r - 1], ch.timing[2])
    ELSE MkArray(k, ch.shape)

\* np.concatenate(xs, axis=0|1), np.concatenate(xs, 1), np.concatenate(xs, None),
\* np.concatenate(xs), np.vstack(xs), np.hstack(xs).
CallForms ==
    {[func |-> "concatenate", arg1 |-> Absent, kwaxis |-> IntArg(ax)] : ax \in 0..1}
    \cup {[func |-> "concatenate", arg1 |-> IntArg(1), kwaxis |-> Absent],
          [func |-> "concatenate", arg1 |-> None, kwaxis |-> Absent]}
    \cup {[func |-> f, arg1 |-> Absent, kwaxis |-> Absent] :
            f \in {"concatenate", "vstack", "hstack"}}

InitConcat ==
    /\ pc = "input"
    /\ \E n \in 1..MaxOperands, form \in CallForms :
         \E ch \in [1..n -> OperandChoices] :
            concat_call = [func |-> form.func,
                           operands |-> [k \in 1..n |-> Operand(k, ch[k])],
                           arg1 |-> form.arg1,
                           kwaxis |-> form.kwaxis]
    /\ concat_ret = None
    /\ start = <<>> /\ end = <<>> /\ fixed = None /\ refixed = None
    /\ split_call = None /\ split_ret = None /\ rejoined = None

\* np.concatenate, np.vstack and np.hstack on operands reach _concatenate_tsd.
Concatenate ==
    /\ pc = "input"
    /\ concat_ret' = _concatenate_tsd(concat_call.func, concat_call.operands,
                                      concat_call.arg1, concat_call.kwaxis)
    /\ pc' = "concatenated"
    /\ UNCHANGED <<concat_call, iset_vars, split_vars>>

NextConcat == Concatenate

SpecConcat == InitConcat /\ [][NextConcat]_vars

\* ================================================================= claims
\* ------------------------------------------------------------ the normalizer
Normalized == pc \in {"fixed", "refixed"}

\* C1: every output row of _jitfix_iset has start < end, and every row ends
\* strictly before the next row starts.
C1_StrictOrdering ==
    Normalized =>
      /\ \A k \in DOMAIN fixed.data : fixed.data[k][1] < fixed.data[k][2]
      /\ \A k \in 1..(Len(fixed.data) - 1) : fixed.data[k][2] < fixed.data[k + 1][1]

\* C2: normalizing the output of a normalization returns the same rows, and
\* no flag of the second report is set.
C2_Idempotent ==
    pc = "refixed" => refixed.data = fixed.data /\ refixed.to_warn = NoWarn

\* The merge as C3 words it: the run goes on while the next start precedes the
\* extended end, which becomes the max of itself and the next end.
RECURSIVE ClaimedRun(_, _, _, _, _)
ClaimedRun(s, e, i, newend, merged) ==
    IF i < Len(s) /\ s[i + 1] < newend
    THEN ClaimedRun(s, e, i + 1, Max(newend, e[i + 1]), TRUE)
    ELSE [i |-> i, newend |-> newend, merged |-> merged]

RECURSIVE ClaimedScan(_, _, _, _, _)
ClaimedScan(s, e, i, data, merged) ==
    IF i > Len(s) THEN [data |-> data, merged |-> merged]
    ELSE LET run == ClaimedRun(s, e, i, e[i], FALSE)
             touch == run.i < Len(s) /\ run.newend = s[run.i + 1]
         IN  ClaimedScan(s, e, run.i + 1,
                         Append(data, <<s[i], IF touch THEN run.newend - Eps
                                              ELSE run.newend>>),
                         merged \/ run.merged)

\* C3: on intervals that all have a duration, the row emitted for a run of
\* overlapping intervals is (the first start, the max of all ends of the run),
\* and flag 2 is set iff some merge step happened.
C3_MergeToMaxEnd ==
    (Normalized /\ \A k \in DOMAIN start : start[k] < end[k]) =>
      LET claimed == ClaimedScan(start, end, 1, <<>>, FALSE)
      IN  fixed.data = claimed.data /\ fixed.to_warn[2] = claimed.merged

\* C4: an input interval whose end equals its start is never an output row,
\* and flag 3 is set whenever the input holds such an interval.
C4_ZeroDurationDropped ==
    Normalized =>
      \A k \in DOMAIN start :
        end[k] = start[k] =>
          /\ \A r \in DOMAIN fixed.data : fixed.data[r] # <<start[k], end[k]>>
          /\ fixed.to_warn[3]

\* ---------------------------------------------------------- concatenation
Concatenated == pc = "concatenated"

CallNaps == SelectSeq(concat_call.operands, IsNap)

CallArrays ==
    [k \in DOMAIN concat_call.operands |->
       IF IsNap(concat_call.operands[k]) THEN concat_call.operands[k].values
       ELSE concat_call.operands[k]]

\* The numeric concatenation of the call.
CallOutput ==
    ImplementationConcat(concat_call.func, CallArrays,
                         KwAxis(concat_call.func, concat_call.arg1, concat_call.kwaxis))

\* The numeric result exists and has more rows than the first operand.
CallGrew ==
    /\ CallOutput.kind = "ok"
    /\ CallOutput.value.shape[1] > CallArrays[1].shape[1]

CallSameRows ==
    /\ CallOutput.kind = "ok"
    /\ ~(CallOutput.value.shape[1] > CallArrays[1].shape[1])

StrictlyIncreasing(t) == \A k \in 1..(Len(t) - 1) : t[k] < t[k + 1]

\* C5: with every operand time-bearing and the first axis grown, the call
\* raises the ordering error when the joined index is not strictly
\* increasing, and otherwise returns a container of the joined index, the
\* numeric output and the union of the supports.
C5_IndexAxisGrowth ==
    (Concatenated /\ CallGrew /\ Len(CallNaps) = Len(concat_call.operands)) =>
      LET joined == Flatten([k \in DOMAIN CallNaps |-> CallNaps[k].index])
          ret == concat_ret.ret
      IN  IF StrictlyIncreasing(joined)
          THEN /\ ret.kind = "container"
               /\ ret.index = joined
               /\ ret.values = CallOutput.value
               /\ Cells(ret.time_support) =
                    UNION {Cells(CallNaps[k].time_support) : k \in DOMAIN CallNaps}
          ELSE ret = Raise("RuntimeError")

C5_Witness ==
    /\ Concatenated /\ CallGrew
    /\ Len(concat_call.operands) >= 2
    /\ Len(CallNaps) = Len(concat_call.operands)
    /\ concat_ret.ret.kind = "container"
    /\ CallNaps[1].time_support # CallNaps[2].time_support

\* Equality within the tolerance, pair by pair: same length, and every entry
\* within Atol.
PairwiseEqual(time_arrays) ==
    \A i, j \in DOMAIN time_arrays :
      /\ Len(time_arrays[i]) = Len(time_arrays[j])
      /\ \A r \in DOMAIN time_arrays[i] : \A c \in DOMAIN time_arrays[i][r] :
           Abs(time_arrays[i][r][c] - time_arrays[j][r][c]) <= Atol

\* C6: with the first axis not grown and two or more time-bearing operands,
\* the result is a container of the first index and support iff all indexes
\* and all supports are pairwise equal; otherwise it is the numeric output
\* with exactly one warning, the one of the mismatch.
C6_OtherAxisEquality ==
    (Concatenated /\ CallSameRows /\ Len(CallNaps) >= 2) =>
      LET time_equal == PairwiseEqual([k \in DOMAIN CallNaps |-> AsRows(CallNaps[k].index)])
          support_equal ==
              PairwiseEqual([k \in DOMAIN CallNaps |-> CallNaps[k].time_support.values])
          ret == concat_ret.ret
      IN  IF time_equal /\ support_equal
          THEN /\ ret.kind = "container"
               /\ ret.index = CallNaps[1].index
               /\ ret.time_support = CallNaps[1].time_support
               /\ concat_ret.warnings = <<>>
          ELSE /\ ret = CallOutput.value
               /\ concat_ret.warnings =
                    << IF ~time_equal /\ ~support_equal THEN MsgBoth
                       ELSE IF ~time_equal THEN MsgIndexes ELSE MsgSupports >>

SplitDone == pc \in {"split", "rejoined"}

IndexAxisFamily == {"split", "array_split", "vsplit"}

\* The value split of the call, as numpy does it.
ValuePieces ==
    Implementation2(split_call.func, split_call.tsd.values,
                    split_call.indices_or_sections)

\* C8: at axis 0, whenever the value split of split, array_split or vsplit
\* succeeds, the call returns one container per value piece, whose index is
\* the slice of the original index over the rows of that piece, with the
\* column labels of the original.
C8_SameCutPoints ==
    (SplitDone /\ split_call.axis = 0 /\ split_call.func \in IndexAxisFamily
       /\ ValuePieces.kind = "ok") =>
      LET tsd == split_call.tsd
          div == DivPoints(Len(tsd.index), split_call.indices_or_sections)
      IN  /\ split_ret.kind = "ok"
          /\ Len(split_ret.value) = Len(ValuePieces.value)
          /\ \A k \in DOMAIN split_ret.value :
               /\ split_ret.value[k].kind = "container"
               /\ split_ret.value[k].values = ValuePieces.value[k]
               /\ split_ret.value[k].index = PySlice(tsd.index, div[k], div[k + 1])
               /\ Len(split_ret.value[k].index) = ValuePieces.value[k].shape[1]
               /\ split_ret.value[k].columns = tsd.columns

\* C9: splitting a container that has rows at axis 0 into N equal pieces and
\* concatenating the pieces along the first axis gives back the values, the
\* index and, for a support of one interval, the support.
C9_RoundTrip ==
    (pc = "rejoined" /\ split_call.axis = 0 /\ split_call.func \in IndexAxisFamily
       /\ split_call.indices_or_sections.kind = "sections"
       /\ split_call.tsd.index # <<>>
       /\ Len(split_call.tsd.index) % split_call.indices_or_sections.n = 0
       /\ Len(split_call.tsd.time_support.values) = 1) =>
      /\ rejoined.ret.kind = "container"
      /\ rejoined.ret.values = split_call.tsd.values
      /\ rejoined.ret.index = split_call.tsd.index
      /\ rejoined.ret.time_support = split_call.tsd.time_support

\* C10: every container _split_tsd returns has one index entry per row of its
\* values and, when it has column labels, one label per column.
C10_PiecesWellFormed ==
    (SplitDone /\ split_ret.kind = "ok") =>
      \A k \in DOMAIN split_ret.value :
        LET piece == split_ret.value[k]
        IN  piece.kind = "container" =>
              /\ Len(piece.index) = piece.values.shape[1]
              /\ piece.columns.kind = "columns" =>
                   Len(piece.columns.labels) = piece.values.shape[2]

====
